---------------------------- MODULE Spec2Model ----------------------------
(***************************************************************************)
(* A model of the youtube-transcript core (src/youtube-transcript/src):    *)
(*   - HTMLParser::caption   (parser.rs 27-48): the caption locator,       *)
(*   - TranscriptParser::parse (parser.rs 112-142): the transcript parser, *)
(*   - From<Transcript> for String (parser.rs 90-107): the rendering.      *)
(*                                                                         *)
(* Text is modelled at the granularity of lexemes: a host document, an     *)
(* anchor and a JSON payload are sequences of lexemes (a punctuation       *)
(* character, the quote character, or a run of other characters).  The     *)
(* substring search of str::split_once is a subsequence search over        *)
(* lexemes; whitespace between lexemes is not represented.  The value of   *)
(* an XML attribute is a sequence of single characters, so that the        *)
(* decimal -> f32 -> Duration conversion is computed, digit by digit.      *)
(***************************************************************************)
EXTENDS Integers, Sequences, FiniteSets, TLC

(***************************************************************************)
(* Bounds of the model.                                                    *)
(***************************************************************************)
\* longest caption-track list embedded in a generated host document
MaxTracks == 2
\* most children of the root element of a generated timed-text document
MaxElems == 2
\* most calls of an entry point on the same input
MaxCalls == 2

(***************************************************************************)
(* Lexemes and small sequence helpers.                                     *)
(***************************************************************************)
\* the double-quote character
Q == "\""

\* s with every sequence of ss appended, in order
RECURSIVE Flatten(_)
Flatten(ss) == IF ss = <<>> THEN <<>> ELSE Head(ss) \o Flatten(Tail(ss))

\* the sequences of ss joined by the lexeme sep
RECURSIVE Join(_, _)
Join(ss, sep) ==
    IF ss = <<>> THEN <<>>
    ELSE IF Len(ss) = 1 THEN ss[1]
    ELSE ss[1] \o <<sep>> \o Join(Tail(ss), sep)

\* all sequences over S of length at most n
SeqsUpTo(S, n) == UNION {[1..k -> S] : k \in 0..n}

(***************************************************************************)
(* str::split_once (parser.rs 30, 34): the text before and after the first *)
(* occurrence of pat in s, or none.                                        *)
(***************************************************************************)
MatchesAt(s, pat, i) ==
    /\ i + Len(pat) - 1 <= Len(s)
    /\ \A k \in 1..Len(pat) : s[i + k - 1] = pat[k]

\* mutant: the delimiter's first lexeme is left at the end of the text before it
SplitOnceKeepsDelimiterHead(s, pat) ==
    LET hits == {i \in 1..(Len(s) + 1) : MatchesAt(s, pat, i)}
    IN  IF hits = {} THEN [found |-> FALSE, before |-> <<>>, after |-> <<>>]
        ELSE LET i == CHOOSE h \in hits : \A g \in hits : h <= g
             IN  [found  |-> TRUE,
                  before |-> SubSeq(s, 1, IF pat = <<>> THEN i - 1 ELSE i),
                  after  |-> SubSeq(s, i + Len(pat), Len(s))]

\* mutant: the text is split at the last occurrence of pat
SplitOnceLast(s, pat) ==
    LET hits == {i \in 1..(Len(s) + 1) : MatchesAt(s, pat, i)}
    IN  IF hits = {} THEN [found |-> FALSE, before |-> <<>>, after |-> <<>>]
        ELSE LET i == CHOOSE h \in hits : \A g \in hits : g <= h
             IN  [found  |-> TRUE,
                  before |-> SubSeq(s, 1, i - 1),
                  after  |-> SubSeq(s, i + Len(pat), Len(s))]

SplitOnce(s, pat) ==
    LET hits == {i \in 1..(Len(s) + 1) : MatchesAt(s, pat, i)}
    IN  IF hits = {} THEN [found |-> FALSE, before |-> <<>>, after |-> <<>>]
        ELSE LET i == CHOOSE h \in hits : \A g \in hits : h <= g
             IN  [found  |-> TRUE,
                  before |-> SubSeq(s, 1, i - 1),
                  after  |-> SubSeq(s, i + Len(pat), Len(s))]

(***************************************************************************)
(* serde_json::from_str (parser.rs 37), first half: the JSON grammar over  *)
(* lexemes.  A value is [t, s, items]: t is its type, s the decoded words  *)
(* of a string, items the elements of an array or the [key, val] members   *)
(* of an object.                                                           *)
(***************************************************************************)
JsonLiterals == {"true", "false", "null"}
JsonNumbers  == {"0", "1", "2", "3", "4", "5", "6", "7", "8", "9"}

JsonVal(t, s, items) == [t |-> t, s |-> s, items |-> items]
JsonFail == [ok |-> FALSE, pos |-> 0, val |-> JsonVal("none", <<>>, <<>>)]
JsonOk(pos, val) == [ok |-> TRUE, pos |-> pos, val |-> val]

\* the text of a string literal: the escape & decodes to &
Unescape(ws) ==
    [k \in 1..Len(ws) |-> IF ws[k] = "\\u0026" THEN "&" ELSE ws[k]]

\* a string literal opening at s[i] = Q, closed by the next Q
JsonString(s, i) ==
    LET closes == {j \in (i + 1)..Len(s) : s[j] = Q}
    IN  IF i > Len(s) \/ s[i] # Q \/ closes = {} THEN JsonFail
        ELSE LET j == CHOOSE c \in closes : \A d \in closes : c <= d
             IN  JsonOk(j + 1, JsonVal("str", Unescape(SubSeq(s, i + 1, j - 1)), <<>>))

RECURSIVE JsonValue(_, _), JsonMembers(_, _, _), JsonElements(_, _, _)

\* the value starting at s[i]
JsonValue(s, i) ==
    IF i > Len(s) THEN JsonFail
    ELSE IF s[i] = Q THEN JsonString(s, i)
    ELSE IF s[i] = "{" THEN
        IF i + 1 <= Len(s) /\ s[i + 1] = "}"
        THEN JsonOk(i + 2, JsonVal("obj", <<>>, <<>>))
        ELSE JsonMembers(s, i + 1, <<>>)
    ELSE IF s[i] = "[" THEN
        IF i + 1 <= Len(s) /\ s[i + 1] = "]"
        THEN JsonOk(i + 2, JsonVal("arr", <<>>, <<>>))
        ELSE JsonElements(s, i + 1, <<>>)
    ELSE IF s[i] \in JsonLiterals THEN JsonOk(i + 1, JsonVal("lit", <<s[i]>>, <<>>))
    ELSE IF s[i] \in JsonNumbers THEN JsonOk(i + 1, JsonVal("num", <<s[i]>>, <<>>))
    ELSE JsonFail

\* the members of an object from s[i] on, after those of acc, up to its "}"
JsonMembers(s, i, acc) ==
    LET k == JsonString(s, i)
    IN  IF ~k.ok \/ k.pos > Len(s) \/ s[k.pos] # ":" THEN JsonFail
        ELSE LET v == JsonValue(s, k.pos + 1)
                 members == Append(acc, [key |-> k.val.s, val |-> v.val])
             IN  IF ~v.ok \/ v.pos > Len(s) THEN JsonFail
                 ELSE IF s[v.pos] = "," THEN JsonMembers(s, v.pos + 1, members)
                 ELSE IF s[v.pos] = "}"
                      THEN JsonOk(v.pos + 1, JsonVal("obj", <<>>, members))
                 ELSE JsonFail

\* the elements of an array from s[i] on, after those of acc, up to its "]"
JsonElements(s, i, acc) ==
    LET v == JsonValue(s, i)
        elems == Append(acc, v.val)
    IN  IF ~v.ok \/ v.pos > Len(s) THEN JsonFail
        ELSE IF s[v.pos] = "," THEN JsonElements(s, v.pos + 1, elems)
        ELSE IF s[v.pos] = "]" THEN JsonOk(v.pos + 1, JsonVal("arr", <<>>, elems))
        ELSE JsonFail

\* a whole document: one value and nothing after it
JsonDocument(s) ==
    LET v == JsonValue(s, 1)
    IN  IF v.ok /\ v.pos = Len(s) + 1 THEN v ELSE JsonFail

(***************************************************************************)
(* serde_json::from_str, second half: the Deserialize impls derived for    *)
(* Caption and Captions (parser.rs 10-22).  A struct is read from an       *)
(* object (each named field exactly once, unknown fields skipped) or from  *)
(* an array of its fields in order; a String only from a string.           *)
(***************************************************************************)
NoCaption == [base_url |-> <<>>, lang_code |-> <<>>]

FieldValues(v, name) ==
    {k \in 1..Len(v.items) : v.items[k].key = <<name>>}

\* the one value of field name in object v; only used when there is exactly one
FieldValue(v, name) ==
    v.items[CHOOSE k \in FieldValues(v, name) : TRUE].val

\* Caption: baseUrl and languageCode, both strings
DeCaption(v) ==
    IF v.t = "obj" THEN
        IF /\ Cardinality(FieldValues(v, "baseUrl")) = 1
           /\ Cardinality(FieldValues(v, "languageCode")) = 1
           /\ \A k \in 1..Len(v.items) :
                 v.items[k].key \in {<<"baseUrl">>, <<"languageCode">>}
                     => v.items[k].val.t = "str"
        THEN [ok |-> TRUE,
              caption |-> [base_url  |-> FieldValue(v, "baseUrl").s,
                           lang_code |-> FieldValue(v, "languageCode").s]]
        ELSE [ok |-> FALSE, caption |-> NoCaption]
    ELSE IF v.t = "arr" /\ Len(v.items) = 2
                        /\ v.items[1].t = "str" /\ v.items[2].t = "str"
    THEN [ok |-> TRUE,
          caption |-> [base_url |-> v.items[1].s, lang_code |-> v.items[2].s]]
    ELSE [ok |-> FALSE, caption |-> NoCaption]

\* mutant: the records that are no Caption are skipped
DeCaptionVecSkipping(v) ==
    IF v.t = "arr"
    THEN LET good == SelectSeq(v.items, LAMBDA x : DeCaption(x).ok)
         IN  [ok |-> TRUE,
              caption_tracks |-> [k \in 1..Len(good) |-> DeCaption(good[k]).caption]]
    ELSE [ok |-> FALSE, caption_tracks |-> <<>>]

\* Vec<Caption>: an array whose every element is a Caption
DeCaptionVec(v) ==
    IF v.t = "arr" /\ \A k \in 1..Len(v.items) : DeCaption(v.items[k]).ok
    THEN [ok |-> TRUE,
          caption_tracks |-> [k \in 1..Len(v.items) |-> DeCaption(v.items[k]).caption]]
    ELSE [ok |-> FALSE, caption_tracks |-> <<>>]

\* Captions: captionTracks, a Vec<Caption>
DeCaptions(v) ==
    IF v.t = "obj" THEN
        IF /\ Cardinality(FieldValues(v, "captionTracks")) = 1
           /\ \A k \in 1..Len(v.items) :
                 v.items[k].key = <<"captionTracks">> => DeCaptionVec(v.items[k].val).ok
        THEN DeCaptionVec(FieldValue(v, "captionTracks"))
        ELSE [ok |-> FALSE, caption_tracks |-> <<>>]
    ELSE IF v.t = "arr" /\ Len(v.items) = 1
    THEN DeCaptionVec(v.items[1])
    ELSE [ok |-> FALSE, caption_tracks |-> <<>>]

\* serde_json::from_str::<Captions>
FromStrCaptions(s) ==
    LET v == JsonDocument(s)
    IN  IF v.ok THEN DeCaptions(v.val)
        ELSE [ok |-> FALSE, caption_tracks |-> <<>>]

(***************************************************************************)
(* Results.  error::Error::ParseError(String) carries its message, here a  *)
(* sequence of lexemes; the text of a serde_json error is one lexeme.      *)
(***************************************************************************)
None == [tag |-> "None"]
ParseError(msg) == [tag |-> "Err", err |-> [variant |-> "ParseError", msg |-> msg]]
OkCaption(c) == [tag |-> "Ok", caption |-> c]
SerdeMessage == <<"serde_json::Error">>

(***************************************************************************)
(* HTMLParser::caption (parser.rs 27-48).                                  *)
(***************************************************************************)
\* mutant: the language is compared only up to the case of its letters
LowerLang(l) ==
    [k \in 1..Len(l) |-> IF l[k] = "EN" THEN "en" ELSE IF l[k] = "FR" THEN "fr" ELSE l[k]]
LangMatchesIgnoringCase(c, lang_code) == LowerLang(c.lang_code) = LowerLang(lang_code)

\* the filter's closure (parser.rs 42)
LangMatches(c, lang_code) == c.lang_code = lang_code

\* mutant: the last matching track
LastMatch(tracks, lang_code) ==
    LET hits == {k \in 1..Len(tracks) : LangMatches(tracks[k], lang_code)}
    IN  IF hits = {} THEN [found |-> FALSE, caption |-> NoCaption]
        ELSE [found |-> TRUE,
              caption |-> tracks[CHOOSE h \in hits : \A g \in hits : g <= h]]

\* into_iter().filter(..).next() (parser.rs 39-43)
FirstMatch(tracks, lang_code) ==
    LET hits == {k \in 1..Len(tracks) : LangMatches(tracks[k], lang_code)}
    IN  IF hits = {} THEN [found |-> FALSE, caption |-> NoCaption]
        ELSE [found |-> TRUE,
              caption |-> tracks[CHOOSE h \in hits : \A g \in hits : h <= g]]

\* mutant: the failures after `from` was found all carry the same message
CaptionAfterFromOneMessage(start, from_, to_, lang_code) ==
    LET b == SplitOnce(start, to_)
        value == FromStrCaptions(b.before)
        hit == FirstMatch(value.caption_tracks, lang_code)
    IN  IF ~b.found \/ ~value.ok \/ ~hit.found
        THEN ParseError(<<"Cannot parse html">>)
        ELSE OkCaption(hit.caption)

\* the rest of caption once `from` was found: parser.rs 33-47
CaptionAfterFrom(start, from_, to_, lang_code) ==
    LET b == SplitOnce(start, to_)
        value == FromStrCaptions(b.before)
        hit == FirstMatch(value.caption_tracks, lang_code)
    IN  IF ~b.found THEN ParseError(<<"Cannot parse html to: ">> \o to_)
        ELSE IF ~value.ok THEN ParseError(SerdeMessage)
        ELSE IF ~hit.found THEN ParseError(<<"Cannot find lang ">> \o lang_code)
        ELSE OkCaption(hit.caption)

\* mutant: the `to` anchor is looked for first, in the whole document
CaptionChecksToFirst(html_, from_, to_, lang_code) ==
    LET a == SplitOnce(html_, from_)
    IN  IF ~SplitOnce(html_, to_).found
        THEN ParseError(<<"Cannot parse html to: ">> \o to_)
        ELSE IF ~a.found THEN ParseError(<<"Cannot parse html for: ">> \o from_)
        ELSE CaptionAfterFrom(a.after, from_, to_, lang_code)

\* the text handed to serde_json::from_str (parser.rs 29-37), when both
\* anchors are found
Region(html_, from_, to_) == SplitOnce(SplitOnce(html_, from_).after, to_).before

caption(html_, from_, to_, lang_code) ==
    LET a == SplitOnce(html_, from_)
    IN  IF ~a.found THEN ParseError(<<"Cannot parse html for: ">> \o from_)
        ELSE CaptionAfterFrom(a.after, from_, to_, lang_code)

(***************************************************************************)
(* str::parse::<f32> (parser.rs 123, 127).  The attribute value is a       *)
(* sequence of characters.  The accepted texts are an optional sign        *)
(* followed by digits with at most one decimal point and at least one      *)
(* digit, or by inf, infinity or nan in any case.  (The exponent form      *)
(* 1e3 is outside the modelled inputs.)  A finite value is m / 2^k: the    *)
(* decimal rounded to the nearest number with a 24-bit significand, ties   *)
(* to even.  Modelled for values in [1/16, 2^24) and for zero.             *)
(***************************************************************************)
\* bits of the significand of an f32
F32_MANTISSA_DIGITS == 24
\* nanoseconds in a second
NANOS_PER_SEC == 1000000000

Digits == <<"0", "1", "2", "3", "4", "5", "6", "7", "8", "9">>
IsDigit(c) == \E k \in 1..Len(Digits) : Digits[k] = c
DigitVal(c) == (CHOOSE k \in 1..Len(Digits) : Digits[k] = c) - 1

RECURSIVE Pow(_, _)
Pow(b, n) == IF n = 0 THEN 1 ELSE b * Pow(b, n - 1)

\* the number written by the digits ds
RECURSIVE DecValue(_)
DecValue(ds) ==
    IF ds = <<>> THEN 0
    ELSE 10 * DecValue(SubSeq(ds, 1, Len(ds) - 1)) + DigitVal(ds[Len(ds)])

\* the number of bits of n >= 1
RECURSIVE BitLen(_)
BitLen(n) == IF n <= 1 THEN n ELSE 1 + BitLen(n \div 2)

\* the zero bits that open the binary expansion of fr / d, 0 < fr < d
RECURSIVE LeadingZeros(_, _)
LeadingZeros(fr, d) == IF 2 * fr >= d THEN 0 ELSE 1 + LeadingZeros(2 * fr, d)

\* acc extended by the next k bits of fr / d, and what is left of fr
RECURSIVE FracBits(_, _, _, _)
FracBits(acc, fr, d, k) ==
    IF k = 0 THEN [m |-> acc, rem |-> fr]
    ELSE FracBits(2 * acc + ((2 * fr) \div d), (2 * fr) % d, d, k - 1)

\* mutant: the bits past the significand are cut off
TruncateBits(m, rem, d) == m

\* round half to even: m, or m + 1, given the remainder rem of a division by d
RoundHalfEven(m, rem, d) ==
    IF 2 * rem > d \/ (2 * rem = d /\ m % 2 = 1) THEN m + 1 ELSE m

\* the f32 nearest to n / d, as m / 2^k
DecToF32(n, d) ==
    LET int == n \div d
        fr  == n % d
        k   == IF int >= 1 THEN F32_MANTISSA_DIGITS - BitLen(int)
               ELSE F32_MANTISSA_DIGITS + LeadingZeros(fr, d)
        b   == FracBits(int, fr, d, k)
    IN  IF n = 0 THEN [m |-> 0, k |-> 0]
        ELSE [m |-> RoundHalfEven(b.m, b.rem, d), k |-> k]

LowerChar(c) ==
    CASE c = "I" -> "i" [] c = "N" -> "n" [] c = "F" -> "f" [] c = "T" -> "t"
      [] c = "Y" -> "y" [] c = "A" -> "a" [] OTHER -> c

F32Err == [ok |-> FALSE, kind |-> "none", neg |-> FALSE, m |-> 0, k |-> 0]

ParseF32(cs) ==
    LET signed == cs # <<>> /\ cs[1] \in {"+", "-"}
        neg  == cs # <<>> /\ cs[1] = "-"
        body == IF signed THEN Tail(cs) ELSE cs
        low  == [i \in 1..Len(body) |-> LowerChar(body[i])]
        dots == {i \in 1..Len(body) : body[i] = "."}
        dot  == IF dots = {} THEN Len(body) + 1 ELSE CHOOSE i \in dots : TRUE
        frac == SubSeq(body, dot + 1, Len(body))
        ds   == SubSeq(body, 1, dot - 1) \o frac
        v    == DecToF32(DecValue(ds), Pow(10, Len(frac)))
    IN  IF low \in {<<"i", "n", "f">>, <<"i", "n", "f", "i", "n", "i", "t", "y">>}
        THEN [ok |-> TRUE, kind |-> "inf", neg |-> neg, m |-> 0, k |-> 0]
        ELSE IF low = <<"n", "a", "n">>
        THEN [ok |-> TRUE, kind |-> "nan", neg |-> neg, m |-> 0, k |-> 0]
        ELSE IF /\ Cardinality(dots) <= 1
                /\ ds # <<>>
                /\ \A i \in 1..Len(ds) : IsDigit(ds[i])
        THEN [ok |-> TRUE, kind |-> "finite", neg |-> neg, m |-> v.m, k |-> v.k]
        ELSE F32Err

(***************************************************************************)
(* Duration::from_secs_f32 (parser.rs 137, 138): whole seconds and the     *)
(* nanoseconds of the fraction, rounded half to even; it panics on a       *)
(* negative, an infinite and a NaN argument.                               *)
(***************************************************************************)
Dur(secs, nanos) == [secs |-> secs, nanos |-> nanos]

\* acc extended by the next n decimal digits of r / p, and what is left of r
\* (the nine digits of a fraction of a second are its nanoseconds)
RECURSIVE DecimalDigits(_, _, _, _)
DecimalDigits(acc, r, p, n) ==
    IF n = 0 THEN [q |-> acc, rem |-> r]
    ELSE DecimalDigits(10 * acc + ((10 * r) \div p), (10 * r) % p, p, n - 1)

\* mutant: the sign is dropped instead of refused
FromSecsF32Unsigned(f) ==
    LET p == Pow(2, f.k)
        d == DecimalDigits(0, f.m % p, p, 9)
        nanos == RoundHalfEven(d.q, d.rem, p)
    IN  IF f.kind # "finite"
        THEN [panic |-> TRUE, dur |-> Dur(0, 0)]
        ELSE IF nanos = NANOS_PER_SEC
        THEN [panic |-> FALSE, dur |-> Dur((f.m \div p) + 1, 0)]
        ELSE [panic |-> FALSE, dur |-> Dur(f.m \div p, nanos)]

FromSecsF32(f) ==
    LET p == Pow(2, f.k)
        d == DecimalDigits(0, f.m % p, p, 9)
        nanos == RoundHalfEven(d.q, d.rem, p)
    IN  IF f.kind # "finite" \/ (f.neg /\ f.m > 0)
        THEN [panic |-> TRUE, dur |-> Dur(0, 0)]
        ELSE IF nanos = NANOS_PER_SEC
        THEN [panic |-> FALSE, dur |-> Dur((f.m \div p) + 1, 0)]
        ELSE [panic |-> FALSE, dur |-> Dur(f.m \div p, nanos)]

(***************************************************************************)
(* roxmltree, as parser.rs uses it.  A node is [kind, tag, attrs,          *)
(* children, text]; kind is root, element, text, comment or pi.            *)
(***************************************************************************)
Node(kind, tag, attrs, children, text) ==
    [kind |-> kind, tag |-> tag, attrs |-> attrs, children |-> children, text |-> text]
Element(tag, attrs, children) == Node("element", tag, attrs, children, "")
Text(t) == Node("text", "", <<>>, <<>>, t)
Comment(t) == Node("comment", "", <<>>, <<>>, t)
Attr(name, value) == [name |-> name, value |-> value]

\* Document::descendants (parser.rs 117): the node and all below it, in document order
RECURSIVE Descendants(_)
Descendants(n) ==
    <<n>> \o Flatten([i \in 1..Len(n.children) |-> Descendants(n.children[i])])

\* .filter(|x| x.tag_name() == "text".into()) (parser.rs 118)
IsTextElement(n) == n.kind = "element" /\ n.tag = "text"

\* mutant: the nodes are visited last to first
ReversedSelect(ns) ==
    LET keep == SelectSeq(ns, IsTextElement)
    IN  [i \in 1..Len(keep) |-> keep[Len(keep) + 1 - i]]

SelectTextElements(ns) == SelectSeq(ns, IsTextElement)

\* Node::attribute (parser.rs 121, 125)
HasAttribute(n, name) == \E i \in 1..Len(n.attrs) : n.attrs[i].name = name
Attribute(n, name) ==
    n.attrs[CHOOSE i \in 1..Len(n.attrs) :
                /\ n.attrs[i].name = name
                /\ \A j \in 1..(i - 1) : n.attrs[j].name # name].value

\* Node::text (parser.rs 132): the text of a text node and of a comment, and
\* for an element the text of its first child when that is a text node
HasText(n) ==
    \/ n.kind \in {"text", "comment"}
    \/ n.kind = "element" /\ n.children # <<>> /\ n.children[1].kind = "text"
NodeText(n) == IF n.kind = "element" THEN n.children[1].text ELSE n.text

(***************************************************************************)
(* TranscriptParser::parse (parser.rs 112-142), one iteration of its loop: *)
(* the segment of a node, the error returned for it, or a panic.           *)
(***************************************************************************)
NoSeg == [text |-> "", start |-> Dur(0, 0), duration |-> Dur(0, 0)]
NoErr == [variant |-> "", msg |-> <<>>]
IterErr(variant, msg) ==
    [tag |-> "Err", seg |-> NoSeg, err |-> [variant |-> variant, msg |-> msg]]

\* mutant: every failure is reported with the one message
PropagateOneMessage(variant, msg) == IterErr("ParseError", <<"transcript parse error">>)

\* the ? operator: the error leaves the function
Propagate(variant, msg) == IterErr(variant, msg)

\* mutant: the first child is taken
FirstChild(n) == n.children[1]

\* Node::last_child (parser.rs 129), of a node that has children
LastChild(n) == n.children[Len(n.children)]

Iteration(node) ==
    LET start == ParseF32(Attribute(node, "start"))
        duration == ParseF32(Attribute(node, "dur"))
        child == LastChild(node)
        s == FromSecsF32(start)
        d == FromSecsF32(duration)
    IN  IF ~HasAttribute(node, "start")
        THEN Propagate("ParseError", <<"transcript parse error">>)
        ELSE IF ~start.ok THEN Propagate("ParseFloatError", <<"invalid float literal">>)
        ELSE IF ~HasAttribute(node, "dur")
        THEN Propagate("ParseError", <<"transcript parse error">>)
        ELSE IF ~duration.ok THEN Propagate("ParseFloatError", <<"invalid float literal">>)
        ELSE IF node.children = <<>>
        THEN Propagate("ParseError", <<"transcript parse error">>)
        ELSE IF ~HasText(child) THEN Propagate("ParseError", <<"transcript error">>)
        ELSE IF s.panic \/ d.panic THEN [tag |-> "Panic", seg |-> NoSeg, err |-> NoErr]
        ELSE [tag |-> "Seg", err |-> NoErr,
              seg |-> [text |-> NodeText(child), start |-> s.dur, duration |-> d.dur]]

(***************************************************************************)
(* From<Transcript> for String (parser.rs 90-107).  The string is a        *)
(* sequence of pieces, each a literal or a clock reading.                  *)
(***************************************************************************)
Lit(t) == [lit |-> t, h |-> 0, m |-> 0, s |-> 0]

\* utils::to_human_readable: hours:minutes:seconds from one hour on, else
\* minutes:seconds
to_human_readable(d) ==
    LET mins == d.secs \div 60
    IN  IF mins >= 60
        THEN [lit |-> "h:m:s", h |-> mins \div 60, m |-> mins % 60, s |-> d.secs % 60]
        ELSE [lit |-> "m:s", h |-> 0, m |-> mins, s |-> d.secs % 60]

\* the closure of the map (parser.rs 96-103)
Block(x) ==
    << Lit("\nstart at: "), to_human_readable(x.start), Lit(" for duration "),
       to_human_readable(x.duration), Lit("\n"), Lit(x.text), Lit("\n==========\n\n") >>

\* mutant: the string opens with a heading
RenderWithHeading(transcripts_) ==
    <<Lit("transcript\n")>>
        \o Flatten([i \in 1..Len(transcripts_) |-> Block(transcripts_[i])])

\* mutant: the blocks are collected last to first
RenderReversed(transcripts_) ==
    Flatten([i \in 1..Len(transcripts_) |->
                Block(transcripts_[Len(transcripts_) + 1 - i])])

\* .map(..).collect::<String>() (parser.rs 93-104)
Render(transcripts_) ==
    Flatten([i \in 1..Len(transcripts_) |-> Block(transcripts_[i])])

(***************************************************************************)
(* Inputs: host documents.  A document is built around a caption-track     *)
(* list; gen records how, so that a claim can be stated against what was   *)
(* put into the document and not against what the parser read out of it.   *)
(***************************************************************************)
Str(words) == <<Q>> \o words \o <<Q>>
Field(name, value) == Str(<<name>>) \o <<":">> \o value
Object(fields) == <<"{">> \o Join(fields, ",") \o <<"}">>
Array(elems) == <<"[">> \o Join(elems, ",") \o <<"]">>

\* the track records: two for en (the second with the further fields of an
\* auto-generated track), one for fr (its URL holds an escaped &), one for EN,
\* two that lack a field, and one for de (found only in a second list,
\* further down the page)
TrackKinds == {"en", "enAsr", "fr", "EN", "noUrl", "noLang"}
WellFormedTrack(kind) == kind \notin {"noUrl", "noLang"}

TrackUrlJson(kind) ==
    CASE kind = "en"    -> <<"U">>
      [] kind = "enAsr" -> <<"U?kind=asr">>
      [] kind = "fr"    -> <<"V?caps=asr", "\\u0026", "lang=fr">>
      [] kind = "EN"    -> <<"W">>
      [] kind = "de"    -> <<"Z">>
      [] OTHER          -> <<"X">>

\* the URL a reader of the page sees in the track
TrackUrl(kind) ==
    IF kind = "fr" THEN <<"V?caps=asr", "&", "lang=fr">> ELSE TrackUrlJson(kind)

TrackLang(kind) ==
    CASE kind \in {"en", "enAsr", "noUrl"} -> <<"en">>
      [] kind = "fr" -> <<"fr">>
      [] kind = "EN" -> <<"EN">>
      [] kind = "de" -> <<"de">>
      [] OTHER       -> <<"zh">>

TrackCaption(kind) == [base_url |-> TrackUrl(kind), lang_code |-> TrackLang(kind)]

TrackJson(kind) ==
    CASE kind = "noUrl"  -> Object(<< Field("languageCode", Str(TrackLang(kind))) >>)
      [] kind = "noLang" -> Object(<< Field("baseUrl", Str(TrackUrlJson(kind))) >>)
      [] kind = "enAsr"  ->
            Object(<< Field("baseUrl", Str(TrackUrlJson(kind))),
                      Field("name", Object(<< Field("simpleText", Str(<<"English (auto-generated)">>)) >>)),
                      Field("vssId", Str(<<"a.en">>)),
                      Field("languageCode", Str(TrackLang(kind))),
                      Field("kind", Str(<<"asr">>)),
                      Field("isTranslatable", <<"true">>) >>)
      [] OTHER ->
            Object(<< Field("baseUrl", Str(TrackUrlJson(kind))),
                      Field("languageCode", Str(TrackLang(kind))) >>)

\* HTMLParserConfig::default (config.rs 9-16), and the anchors of the spec's scenario
Anchors(style) ==
    IF style = "youtube"
    THEN [from |-> <<"playerCaptionsTracklistRenderer", Q, ":">>,
          to   |-> <<"}", ",", Q, "videoDetails", Q>>]
    ELSE [from |-> <<"TOKEN_FROM", Q, ":">>,
          to   |-> <<"}", "TOKEN_TO">>]
Styles == {"youtube", "token"}

\* the text up to and including the `from` anchor
DocHead(style) ==
    IF style = "youtube"
    THEN <<Q, "elapsedMediaTimeSeconds", Q, ":", "0", "}", "}", ",">>
            \o Field("captions", <<"{", Q>> \o Anchors(style).from)
    ELSE <<"...">> \o Anchors(style).from

\* the text after the braces that follow the payload: the rest of the `to` anchor
DocTail(style) ==
    Tail(Anchors(style).to)
        \o (IF style = "youtube" THEN <<":", "{", Q, "videoId", Q>> ELSE <<"...">>)

\* the fields that follow the track list in the payload of the page
ExtraFields ==
    Field("audioTracks", Array(<< Object(<< Field("defaultCaptionTrackIndex", <<"2">>) >>) >>))
        \o <<",">> \o Field("defaultAudioTrackIndex", <<"0">>)

\* the payload up to its closing brace: the track list and, with extras, the
\* fields that follow it
PayloadOpen(tracks, extras) ==
    <<"{">> \o Field("captionTracks", Array([i \in 1..Len(tracks) |-> TrackJson(tracks[i])]))
        \o (IF extras THEN <<",">> \o ExtraFields ELSE <<>>)

\* plain: the track list alone; extras: followed by further fields;
\* noList: the further fields without the track list; noTo: nothing of the
\* `to` anchor after the payload; toBeforeFromOnly: the `to` anchor at the
\* top of the page and not after the payload; toBefore: at the top and after
\* the payload; again: the renderer, a list with one de track and the rest
\* of the page a second time, after the first
Variants == {"plain", "extras", "noList", "noTo", "toBeforeFromOnly", "toBefore", "again"}

\* the payload of g up to its closing brace
PayloadOf(g) ==
    IF g.variant = "noList" THEN <<"{">> \o ExtraFields
    ELSE PayloadOpen(g.tracks, g.variant = "extras")

\* gen = [style, tracks, closers, variant]: closers is the number of closing
\* braces between the track list (and extras) and the rest of the `to` anchor.
\* Two is the shape of the page (the payload's own brace, then the brace that
\* opens the anchor), one the shape of the spec's scenario.
HtmlOf(g) ==
    LET body == DocHead(g.style) \o PayloadOf(g) \o [i \in 1..g.closers |-> "}"]
    IN  CASE g.variant = "noTo" -> body \o <<"...">>
          [] g.variant = "toBeforeFromOnly" -> Anchors(g.style).to \o body \o <<"...">>
          [] g.variant = "toBefore" -> Anchors(g.style).to \o body \o DocTail(g.style)
          [] g.variant = "again" ->
                body \o DocTail(g.style)
                     \o DocHead(g.style) \o PayloadOpen(<<"de">>, FALSE) \o <<"}", "}">>
                     \o DocTail(g.style)
          [] OTHER -> body \o DocTail(g.style)

\* (a page without the track list is one page, whatever the tracks; the
\* variants of where the anchors occur are taken with the shorter lists and
\* with both braces)
Gens ==
    {g \in [style : Styles, tracks : SeqsUpTo(TrackKinds, MaxTracks),
            closers : {1, 2}, variant : Variants] :
        /\ g.variant = "noList" => g.tracks = <<>>
        /\ g.variant \notin {"plain", "extras", "noList"} =>
               Len(g.tracks) < MaxTracks /\ g.closers = 2}
NoGen == [style |-> "none", tracks |-> <<>>, closers |-> 0, variant |-> "none"]

Langs == {<<"en">>, <<"fr">>, <<"de">>}

(***************************************************************************)
(* Inputs: timed-text documents.  The root element holds up to MaxElems    *)
(* children, each of one of these kinds.                                   *)
(***************************************************************************)
TextElement(start, dur, children) ==
    Element("text", <<Attr("start", start), Attr("dur", dur)>>, children)

ElemKinds ==
    {"hey", "hello", "noStart", "noDur", "badStart", "badDur", "negStart", "infDur",
     "empty", "brLast", "bold", "comment", "mixed", "para", "nested", "font", "late"}

ElemOf(kind) ==
    CASE kind = "hey" ->
            TextElement(<<"0">>, <<"1", ".", "5", "4">>, <<Text("Hey")>>)
      [] kind = "hello" ->
            TextElement(<<"1", ".", "5", "4">>, <<"4", ".", "1", "6">>, <<Text("Hello")>>)
      [] kind = "noStart" ->
            Element("text", <<Attr("dur", <<"1">>)>>, <<Text("a")>>)
      [] kind = "noDur" ->
            Element("text", <<Attr("start", <<"2">>)>>, <<Text("b")>>)
      [] kind = "badStart" ->
            TextElement(<<"a", "b", "c">>, <<"1">>, <<Text("c")>>)
      [] kind = "badDur" ->
            TextElement(<<"1">>, <<"1", "s">>, <<Text("f")>>)
      [] kind = "negStart" ->
            TextElement(<<"-", "1">>, <<"1">>, <<Text("d")>>)
      [] kind = "infDur" ->
            TextElement(<<"3">>, <<"i", "n", "f">>, <<Text("e")>>)
      [] kind = "empty" ->
            TextElement(<<"4">>, <<"1">>, <<>>)
      [] kind = "brLast" ->
            TextElement(<<"5">>, <<"1">>, <<Text("x"), Element("br", <<>>, <<>>)>>)
      [] kind = "bold" ->
            TextElement(<<"6">>, <<"0", ".", "6", "4">>,
                        <<Element("b", <<>>, <<Text("bold")>>)>>)
      [] kind = "comment" ->
            TextElement(<<"7">>, <<"1">>, <<Text("y"), Comment("note")>>)
      [] kind = "mixed" ->
            TextElement(<<"1", "0">>, <<"1">>,
                        <<Element("i", <<>>, <<Text("early")>>), Text("tail")>>)
      [] kind = "para" ->
            Element("p", <<>>,
                    <<TextElement(<<"5", ".", "7">>, <<"3", ".", "2", "3", "9">>,
                                  <<Text("deep")>>)>>)
      [] kind = "nested" ->
            TextElement(<<"8">>, <<"1">>,
                        <<TextElement(<<"9">>, <<"1">>, <<Text("inner")>>)>>)
      [] kind = "late" ->
            TextElement(<<"3", "7", "0", "0">>, <<"2">>, <<Text("late")>>)
      [] OTHER ->
            Element("font", <<>>, <<Text("z")>>)

\* the document: the root node, the <transcript> element, its children
DocOf(kinds) ==
    Node("root", "", <<>>,
         <<Element("transcript", <<>>, [i \in 1..Len(kinds) |-> ElemOf(kinds[i])])>>, "")
NoDoc == Node("root", "", <<>>, <<>>, "")

(***************************************************************************)
(* The state.  A run exercises one entry point (op) on one input, up to    *)
(* MaxCalls times.                                                         *)
(*   html, from, to, lang_code : the arguments of caption; gen: how html   *)
(*                               was built                                 *)
(*   captionOut, captionPrev   : what the last call of caption returned,   *)
(*                               and the call before it                    *)
(*   doc, kinds                : the Document given to parse, and the      *)
(*                               kinds of its elements                     *)
(*   pc                        : idle, loop (inside parse's for loop),     *)
(*                               done (parse returned), panicked           *)
(*   nodes, transcripts        : the iterator and the Vec of parse         *)
(*   parsed, parsedPrev        : what the last call of parse returned,     *)
(*                               and the call before it                    *)
(*   rendered                  : String::from of the returned Transcript   *)
(*   other                     : a call of parse on another thread, on its *)
(*                               own Document: [doc, kinds, pc, nodes,     *)
(*                               transcripts, parsed]; absent in a run of  *)
(*                               one thread                                *)
(***************************************************************************)
VARIABLES op, html, from, to, lang_code, gen, captionOut, captionPrev,
          doc, kinds, pc, nodes, transcripts, parsed, parsedPrev, rendered, calls,
          other

vars == <<op, html, from, to, lang_code, gen, captionOut, captionPrev,
          doc, kinds, pc, nodes, transcripts, parsed, parsedPrev, rendered, calls,
          other>>
inputVars == <<op, html, from, to, lang_code, gen, doc, kinds>>
\* the state of the calls of the first thread
ownVars == <<op, html, from, to, lang_code, gen, captionOut, captionPrev,
             doc, kinds, pc, nodes, transcripts, parsed, parsedPrev, rendered, calls>>

OkTranscript(ts) == [tag |-> "Ok", transcripts |-> ts]
Panic == [tag |-> "Panic"]

InitCaption ==
    /\ op = "caption"
    /\ gen \in Gens
    /\ html = HtmlOf(gen)
    /\ \E sf \in Styles, st \in Styles : from = Anchors(sf).from /\ to = Anchors(st).to
    /\ lang_code \in Langs
    /\ doc = NoDoc /\ kinds = <<>>

InitParse ==
    /\ op = "parse"
    /\ kinds \in SeqsUpTo(ElemKinds, MaxElems)
    /\ doc = DocOf(kinds)
    /\ html = <<>> /\ from = <<>> /\ to = <<>> /\ lang_code = <<>> /\ gen = NoGen

\* no call on another thread
NoOther ==
    [doc |-> NoDoc, kinds |-> <<>>, pc |-> "absent", nodes |-> <<>>,
     transcripts |-> <<>>, parsed |-> None]

Init ==
    /\ InitCaption \/ InitParse
    /\ captionOut = None /\ captionPrev = None
    /\ pc = "idle" /\ nodes = <<>> /\ transcripts = <<>>
    /\ parsed = None /\ parsedPrev = None /\ rendered = None
    /\ calls = 0
    /\ other = NoOther

\* a call of HTMLParser::caption (parser.rs 27-48)
CaptionCall ==
    /\ op = "caption" /\ calls < MaxCalls
    /\ captionOut' = caption(html, from, to, lang_code)
    /\ captionPrev' = captionOut
    /\ calls' = calls + 1
    /\ UNCHANGED <<inputVars, pc, nodes, transcripts, parsed, parsedPrev, rendered, other>>

\* mutant: the Vec is the one the last call filled
LeftoverVec == transcripts

\* Vec::new() (parser.rs 115)
NewVec == <<>>

\* a call of TranscriptParser::parse, up to its loop (parser.rs 112-118)
ParseBegin ==
    /\ op = "parse" /\ pc \in {"idle", "done"} /\ calls < MaxCalls
    /\ transcripts' = NewVec
    /\ nodes' = SelectTextElements(Descendants(doc))
    /\ pc' = "loop"
    /\ parsedPrev' = parsed
    /\ parsed' = None
    /\ rendered' = None
    /\ calls' = calls + 1
    /\ UNCHANGED <<inputVars, captionOut, captionPrev, other>>

\* one iteration of the loop (parser.rs 119-140): a segment is pushed, or the
\* error leaves the function and the Vec is dropped, or the thread panics
ParseIteration ==
    /\ pc = "loop" /\ nodes # <<>>
    /\ LET r == Iteration(Head(nodes))
       IN  CASE r.tag = "Seg" ->
                   /\ transcripts' = Append(transcripts, r.seg)
                   /\ nodes' = Tail(nodes)
                   /\ UNCHANGED <<pc, parsed>>
             [] r.tag = "Err" ->
                   /\ parsed' = [tag |-> "Err", err |-> r.err]
                   /\ pc' = "done"
                   /\ transcripts' = <<>> /\ nodes' = <<>>
             [] r.tag = "Panic" ->
                   /\ parsed' = Panic
                   /\ pc' = "panicked"
                   /\ transcripts' = <<>> /\ nodes' = <<>>
    /\ UNCHANGED <<inputVars, captionOut, captionPrev, parsedPrev, rendered, calls, other>>

\* Ok(Transcript { transcripts }) (parser.rs 141)
ParseReturn ==
    /\ pc = "loop" /\ nodes = <<>>
    /\ parsed' = OkTranscript(transcripts)
    /\ pc' = "done"
    /\ UNCHANGED <<inputVars, captionOut, captionPrev, nodes, transcripts,
                   parsedPrev, rendered, calls, other>>

\* String::from(transcript) on the returned Transcript (parser.rs 90-107)
RenderCall ==
    /\ pc = "done" /\ parsed.tag = "Ok" /\ rendered.tag = "None"
    /\ rendered' = [tag |-> "String", pieces |-> Render(parsed.transcripts)]
    /\ UNCHANGED <<inputVars, captionOut, captionPrev, pc, nodes, transcripts,
                   parsed, parsedPrev, calls, other>>

Next ==
    \/ CaptionCall
    \/ ParseBegin
    \/ ParseIteration
    \/ ParseReturn
    \/ RenderCall

Spec == Init /\ [][Next]_vars

(***************************************************************************)
(* Two threads.  The first makes one call, of caption or of parse; the     *)
(* other calls parse on a Document of its own.  The steps of the two calls *)
(* interleave in any order.  Neither function has a static or a global:    *)
(* the Vec, the iterator and the result of a call are locals of the call   *)
(* (parser.rs 115-118), and the inputs are borrowed immutably (&str,       *)
(* &Document).                                                             *)
(***************************************************************************)
\* TranscriptParser::parse (parser.rs 112-142) as one function: the loop
\* over ns with the Vec acc, and the whole call
RECURSIVE ParseLoop(_, _)
ParseLoop(ns, acc) ==
    IF ns = <<>> THEN OkTranscript(acc)
    ELSE LET r == Iteration(Head(ns))
         IN  CASE r.tag = "Seg"   -> ParseLoop(Tail(ns), Append(acc, r.seg))
               [] r.tag = "Err"   -> [tag |-> "Err", err |-> r.err]
               [] r.tag = "Panic" -> Panic
parse(doc_) == ParseLoop(SelectTextElements(Descendants(doc_)), NewVec)

\* the documents of the two threads
ConcurrentKinds == {"hello", "noDur", "negStart"}
ConcurrentTracks == {"en", "fr"}

InitConcurrent ==
    /\ \/ /\ op = "caption"
          /\ \E ts \in SeqsUpTo(ConcurrentTracks, MaxTracks) :
                gen = [style |-> "youtube", tracks |-> ts, closers |-> 2, variant |-> "plain"]
          /\ html = HtmlOf(gen)
          /\ from = Anchors("youtube").from /\ to = Anchors("youtube").to
          /\ lang_code \in Langs
          /\ doc = NoDoc /\ kinds = <<>>
       \/ /\ op = "parse"
          /\ kinds \in SeqsUpTo(ConcurrentKinds, MaxElems)
          /\ doc = DocOf(kinds)
          /\ html = <<>> /\ from = <<>> /\ to = <<>> /\ lang_code = <<>> /\ gen = NoGen
    /\ captionOut = None /\ captionPrev = None
    /\ pc = "idle" /\ nodes = <<>> /\ transcripts = <<>>
    /\ parsed = None /\ parsedPrev = None /\ rendered = None
    /\ calls = MaxCalls - 1
    /\ \E ks \in SeqsUpTo(ConcurrentKinds, MaxElems) :
          other = [doc |-> DocOf(ks), kinds |-> ks, pc |-> "idle", nodes |-> <<>>,
                   transcripts |-> <<>>, parsed |-> None]

\* mutant: one Vec for all calls, the other call pushes onto the Vec of the first
SharedVec == transcripts

\* the Vec the other call pushes onto: its own local (parser.rs 115)
OwnVec == other.transcripts

\* the other call, up to its loop (parser.rs 112-118)
OtherBegin ==
    /\ other.pc = "idle"
    /\ other' = [other EXCEPT !.pc = "loop", !.transcripts = NewVec,
                              !.nodes = SelectTextElements(Descendants(other.doc))]
    /\ UNCHANGED ownVars

\* one iteration of the other call's loop (parser.rs 119-140)
OtherIteration ==
    /\ other.pc = "loop" /\ other.nodes # <<>>
    /\ LET r == Iteration(Head(other.nodes))
       IN  other' =
             CASE r.tag = "Seg" ->
                    [other EXCEPT !.transcripts = Append(OwnVec, r.seg),
                                  !.nodes = Tail(other.nodes)]
               [] r.tag = "Err" ->
                    [other EXCEPT !.parsed = [tag |-> "Err", err |-> r.err],
                                  !.pc = "done", !.transcripts = <<>>, !.nodes = <<>>]
               [] r.tag = "Panic" ->
                    [other EXCEPT !.parsed = Panic,
                                  !.pc = "panicked", !.transcripts = <<>>, !.nodes = <<>>]
    /\ UNCHANGED ownVars

\* the other call returns (parser.rs 141)
OtherReturn ==
    /\ other.pc = "loop" /\ other.nodes = <<>>
    /\ other' = [other EXCEPT !.parsed = OkTranscript(other.transcripts), !.pc = "done"]
    /\ UNCHANGED ownVars

NextConcurrent ==
    \/ CaptionCall
    \/ ParseBegin
    \/ ParseIteration
    \/ ParseReturn
    \/ OtherBegin
    \/ OtherIteration
    \/ OtherReturn

SpecConcurrent == InitConcurrent /\ [][NextConcurrent]_vars

(***************************************************************************)
(* What was put into the inputs, read off gen and kinds (not off the       *)
(* parsers).                                                               *)
(***************************************************************************)
\* caption has returned
Called == captionOut.tag # "None"
\* parse has returned or panicked
Parsed == parsed.tag # "None"

\* the `from` anchor of the call occurs in html
FromPresent == from = Anchors(gen.style).from
\* the `to` anchor of the call occurs in html after the `from` anchor of the page
ToPresentAfterFrom ==
    to = Anchors(gen.style).to /\ gen.variant \notin {"noTo", "toBeforeFromOnly"}

\* the anchors of the call enclose a complete payload whose every track has
\* a URL and a language
ValidTrackList ==
    /\ FromPresent /\ ToPresentAfterFrom
    /\ gen.closers = 2 /\ gen.variant # "noList"
    /\ \A i \in 1..Len(gen.tracks) : WellFormedTrack(gen.tracks[i])

TracksInLanguage == {i \in 1..Len(gen.tracks) : TrackLang(gen.tracks[i]) = lang_code}

FromError == ParseError(<<"Cannot parse html for: ">> \o from)
ToError == ParseError(<<"Cannot parse html to: ">> \o to)
LangError == ParseError(<<"Cannot find lang ">> \o lang_code)
PayloadError == ParseError(SerdeMessage)

\* the elements of a kind that match, by what their start attribute denotes
KindStarts(kind) ==
    CASE kind = "hey"     -> <<Dur(0, 0)>>
      [] kind = "hello"   -> <<Dur(1, 539999962)>>
      [] kind = "bold"    -> <<Dur(6, 0)>>
      [] kind = "comment" -> <<Dur(7, 0)>>
      [] kind = "mixed"   -> <<Dur(10, 0)>>
      [] kind = "para"    -> <<Dur(5, 699999809)>>
      [] kind = "nested"  -> <<Dur(8, 0), Dur(9, 0)>>
      [] kind = "late"    -> <<Dur(3700, 0)>>
      [] OTHER            -> <<>>

\* every matching element of the kind has both attributes, each a
\* non-negative finite number, and a last child with text
ValidKind(kind) ==
    kind \in {"hey", "hello", "bold", "comment", "mixed", "para", "nested", "late", "font"}

\* the kind has a matching element with a missing or non-numeric attribute,
\* no child, or a last child without text
InvalidKind(kind) ==
    kind \in {"noStart", "noDur", "badStart", "badDur", "empty", "brLast"}

ExpectedStarts == Flatten([i \in 1..Len(kinds) |-> KindStarts(kinds[i])])

(***************************************************************************)
(* The claims.                                                             *)
(***************************************************************************)
\* C1: when the anchors enclose a valid track list, caption returns a track
\* of that list whose language is exactly the requested one if the list has
\* such a track, and the language error (and no track) if it has none.
C1_ExactLanguage ==
    (Called /\ ValidTrackList) =>
        IF TracksInLanguage # {}
        THEN /\ captionOut.tag = "Ok"
             /\ \E i \in 1..Len(gen.tracks) : captionOut.caption = TrackCaption(gen.tracks[i])
             /\ captionOut.caption.lang_code = lang_code
        ELSE captionOut = LangError

\* a list with an EN track before the en track, asked for en
C1_Witness ==
    /\ Called /\ ValidTrackList
    /\ gen.tracks = <<"EN", "en">> /\ lang_code = <<"en">>
    /\ captionOut = OkCaption(TrackCaption("en"))

\* C2: without the `from` anchor caption returns the error that names
\* `from`, whether or not `to` occurs; the error that names `to` is returned
\* exactly when `from` was found and `to` does not follow it.
C2_FromBeforeTo ==
    Called =>
        /\ ~FromPresent => captionOut = FromError
        /\ (FromPresent /\ ~ToPresentAfterFrom) => captionOut = ToError
        /\ captionOut = ToError => (FromPresent /\ ~ToPresentAfterFrom)

\* `from` is absent and `to` is in the document
C2_Witness ==
    /\ Called /\ ~FromPresent
    /\ to = Anchors(gen.style).to /\ gen.variant = "plain"
    /\ captionOut = FromError

\* C3: when every matching element is valid, parse returns one segment per
\* element named text among the descendants, the i-th from the i-th such
\* element in document order.
C3_OneSegmentPerElement ==
    (Parsed /\ \A i \in 1..Len(kinds) : ValidKind(kinds[i])) =>
        /\ parsed.tag = "Ok"
        /\ Len(parsed.transcripts) = Len(ExpectedStarts)
        /\ \A i \in 1..Len(ExpectedStarts) : parsed.transcripts[i].start = ExpectedStarts[i]

\* an element below a <p>, then an element inside an element: three segments
C3_Witness ==
    /\ kinds = <<"para", "nested">>
    /\ parsed.tag = "Ok" /\ Len(parsed.transcripts) = 3

\* C4: if any matching element is invalid, parse returns an error (which
\* carries no segment).
C4_AllOrNothing ==
    (Parsed /\ \E i \in 1..Len(kinds) : InvalidKind(kinds[i])) => parsed.tag = "Err"

\* C5, as claimed: start 1.54 is 1540 ms and dur 4.16 is 4160 ms.
C5_ExactMilliseconds ==
    parsed.tag = "Ok" =>
        \A i \in 1..Len(parsed.transcripts) :
            LET x == parsed.transcripts[i]
            IN  /\ x.text = "Hey" => x.start = Dur(0, 0) /\ x.duration = Dur(1, 540000000)
                /\ x.text = "Hello" =>
                       x.start = Dur(1, 540000000) /\ x.duration = Dur(4, 160000000)

\* C5, amended: 0 is the zero offset; 1.54 is the f32 nearest to 1.54 in
\* nanoseconds, 1.539999962 s, and 4.16 is 4.159999847 s: less than a
\* microsecond, and more than nothing, away from what the document wrote.
C5_SinglePrecision ==
    parsed.tag = "Ok" =>
        \A i \in 1..Len(parsed.transcripts) :
            LET x == parsed.transcripts[i]
            IN  /\ x.text = "Hey" => x.start = Dur(0, 0) /\ x.duration = Dur(1, 539999962)
                /\ x.text = "Hello" =>
                       x.start = Dur(1, 539999962) /\ x.duration = Dur(4, 159999847)

\* the document of the spec's scenario, parsed
C5_Witness ==
    /\ kinds = <<"hello">> /\ parsed.tag = "Ok"
    /\ parsed.transcripts[1].text = "Hello"

\* C6: both operations end by returning a result or an error value.
C6_Total ==
    /\ captionOut.tag \in {"None", "Ok", "Err"}
    /\ parsed.tag \in {"None", "Ok", "Err"}

\* C7: of several tracks with the requested language, caption returns the
\* first of the list.
C7_FirstMatchWins ==
    (Called /\ ValidTrackList /\ TracksInLanguage # {}) =>
        LET first == CHOOSE i \in TracksInLanguage : \A j \in TracksInLanguage : i <= j
        IN  captionOut = OkCaption(TrackCaption(gen.tracks[first]))

\* an en track followed by the auto-generated en track
C7_Witness ==
    /\ Called /\ ValidTrackList
    /\ gen.tracks = <<"en", "enAsr">> /\ lang_code = <<"en">>
    /\ captionOut.caption.base_url = <<"U">>

\* the call of the spec's scenario on a document of its anchors with one
\* track, U for en, and n closing braces before TOKEN_TO
Scenario(n) ==
    /\ Called
    /\ gen = [style |-> "token", tracks |-> <<"en">>, closers |-> n, variant |-> "plain"]
    /\ from = Anchors("token").from /\ to = Anchors("token").to
    /\ lang_code = <<"en">>

\* C8, as claimed: on ...TOKEN_FROM":{"captionTracks":[{..}]}TOKEN_TO...
\* the call returns the URL U.
C8_ScenarioAsWritten ==
    Scenario(1) => (captionOut.tag = "Ok" /\ captionOut.caption.base_url = <<"U">>)

\* C8, amended: the call returns U when the payload's own closing brace
\* precedes the brace that opens the `to` marker (...]}}TOKEN_TO); on the
\* document as written the decoded region lacks its closing brace and the
\* call returns the payload error.
C8_ScenarioWithOwnBrace ==
    /\ Scenario(2) => captionOut = OkCaption([base_url |-> <<"U">>, lang_code |-> <<"en">>])
    /\ Scenario(1) => captionOut = PayloadError

C8_Witness == Scenario(2) /\ captionOut.tag = "Ok"

C10_RenderTotal ==
    rendered.tag # "None" =>
        /\ rendered.tag = "String"
        /\ rendered.pieces \in Seq([lit : STRING, h : Nat, m : Nat, s : Nat])
        /\ parsed.transcripts = <<>> => rendered.pieces = <<>>

\* the empty Transcript, rendered
C10_Witness ==
    /\ rendered.tag = "String"
    /\ parsed.tag = "Ok" /\ parsed.transcripts = <<>>


\* the failure condition the call meets, the first in the order of the claim
Condition ==
    IF ~FromPresent THEN "from"
    ELSE IF ~ToPresentAfterFrom THEN "to"
    ELSE IF ~ValidTrackList THEN "payload"
    ELSE IF TracksInLanguage = {} THEN "lang"
    ELSE "none"
Conditions == {"from", "to", "payload", "lang"}

\* what caption returns to a call that meets one failure condition and no
\* earlier one, on the page with one en track: the anchors of another page,
\* a payload without its closing brace, a language the page does not have
OneTrackPage(n) ==
    HtmlOf([style |-> "youtube", tracks |-> <<"en">>, closers |-> n, variant |-> "plain"])
ErrorOfFrom ==
    caption(OneTrackPage(2), Anchors("token").from, Anchors("youtube").to, <<"en">>)
ErrorOfTo ==
    caption(OneTrackPage(2), Anchors("youtube").from, Anchors("token").to, <<"en">>)
ErrorOfPayload ==
    caption(OneTrackPage(1), Anchors("youtube").from, Anchors("youtube").to, <<"en">>)
ErrorOfLang ==
    caption(OneTrackPage(2), Anchors("youtube").from, Anchors("youtube").to, <<"de">>)
ErrorOf(c) ==
    CASE c = "from"    -> ErrorOfFrom
      [] c = "to"      -> ErrorOfTo
      [] c = "payload" -> ErrorOfPayload
      [] c = "lang"    -> ErrorOfLang

\* the condition a caller reads off the text of a message
MessageCondition(msg) ==
    CASE Head(msg) = "Cannot parse html for: " -> "from"
      [] Head(msg) = "Cannot parse html to: "  -> "to"
      [] Head(msg) = "Cannot find lang "       -> "lang"
      [] OTHER                                 -> "payload"

\* C11, as claimed: the kind of the returned error tells the four failure
\* conditions apart: a call that meets another condition gets an error of
\* another kind.
C11_DistinctKinds ==
    (Called /\ captionOut.tag = "Err") =>
        \A c \in Conditions \ {Condition} :
            ErrorOf(c).err.variant # captionOut.err.variant

\* C11, amended: the four conditions are reported as one kind of error,
\* ParseError, and are told apart by the text of its message only: the call
\* fails exactly when it meets a condition, and the message then begins
\* with the text of that condition (for the payload, it is serde_json's).
C11_DistinctMessages ==
    Called =>
        /\ captionOut.tag = "Err" <=> Condition \in Conditions
        /\ captionOut.tag = "Err" =>
               /\ captionOut.err.variant = "ParseError"
               /\ MessageCondition(captionOut.err.msg) = Condition

\* a payload that lacks its closing brace, between anchors that are found
C11_Witness ==
    /\ Called /\ Condition = "payload"
    /\ captionOut.err.variant = "ParseError"
    /\ MessageCondition(captionOut.err.msg) = "payload"

\* the first element of the document that is not valid, 0 when all are
FirstOffending ==
    LET bad == {i \in 1..Len(kinds) : ~ValidKind(kinds[i])}
    IN  IF bad = {} THEN 0 ELSE CHOOSE i \in bad : \A j \in bad : i <= j

\* the kind of failure the claim assigns to an invalid element
ClaimedFailure(kind) ==
    CASE kind = "noStart"  -> "missing attribute start"
      [] kind = "noDur"    -> "missing attribute dur"
      [] kind = "badStart" -> "invalid numeric attribute start"
      [] kind = "badDur"   -> "invalid numeric attribute dur"
      [] kind \in {"empty", "brLast"} -> "missing text"

InvalidKinds == {k \in ElemKinds : InvalidKind(k)}

\* C12, as claimed: the returned error identifies the kind of failure of
\* the offending element: an element with another kind of failure gets
\* another error.
C12_KindIdentified ==
    (parsed.tag = "Err" /\ FirstOffending > 0) =>
        \A k \in InvalidKinds :
            ClaimedFailure(k) # ClaimedFailure(kinds[FirstOffending])
                => Iteration(ElemOf(k)).err # parsed.err

\* C12, amended: when the first offending element is invalid, parse
\* returns ParseError("transcript parse error") if it lacks start, lacks
\* dur or has no child, ParseError("transcript error") if its last child
\* has no text, and the float parser's error, the same for start and dur,
\* if an attribute is not a number.
C12_ThreeMessages ==
    (Parsed /\ FirstOffending > 0 /\ InvalidKind(kinds[FirstOffending])) =>
        LET kind == kinds[FirstOffending]
        IN  /\ parsed.tag = "Err"
            /\ kind \in {"noStart", "noDur", "empty"} =>
                   parsed.err = [variant |-> "ParseError", msg |-> <<"transcript parse error">>]
            /\ kind = "brLast" =>
                   parsed.err = [variant |-> "ParseError", msg |-> <<"transcript error">>]
            /\ kind \in {"badStart", "badDur"} =>
                   /\ parsed.err.variant # "ParseError"
                   /\ parsed.err.msg = <<"invalid float literal">>
                   /\ parsed.err = Iteration(ElemOf("badStart")).err
                   /\ parsed.err = Iteration(ElemOf("badDur")).err

\* a valid element, then one without dur
C12_Witness ==
    /\ kinds = <<"hey", "noDur">>
    /\ parsed.tag = "Err" /\ parsed.err.msg = <<"transcript parse error">>

\* the kind has a matching element whose start or dur is absent, is not a
\* number, or is a number below zero or beyond every number
NoOffsetKind(kind) ==
    kind \in {"noStart", "noDur", "badStart", "badDur", "negStart", "infDur"}

\* a Duration: whole seconds and less than a second of nanoseconds, none
\* below zero
IsOffset(d) == d.secs \in Nat /\ d.nanos \in 0..(NANOS_PER_SEC - 1)

\* C13: in a returned transcript the start and the length of every segment
\* are non-negative offsets, and a document with an element whose start or
\* dur does not denote a non-negative number has no returned transcript
\* (so no segment of such an element is ever returned).
C13_NonNegativeOffsets ==
    /\ parsed.tag = "Ok" =>
           \A i \in 1..Len(parsed.transcripts) :
               /\ IsOffset(parsed.transcripts[i].start)
               /\ IsOffset(parsed.transcripts[i].duration)
    /\ (Parsed /\ \E i \in 1..Len(kinds) : NoOffsetKind(kinds[i])) =>
           parsed.tag # "Ok"

\* a valid element, then one with start="-1": the call has ended, with no
\* transcript
C13_Witness ==
    /\ kinds = <<"hey", "negStart">>
    /\ Parsed /\ parsed.tag # "Ok"

\* C14: whatever the interleaving of the two calls, each ends with the
\* result the function gives for its input alone, and the inputs are as
\* they were given.
C14_Independent ==
    /\ other.pc \in {"done", "panicked"} => other.parsed = parse(other.doc)
    /\ Parsed => parsed = parse(doc)
    /\ Called => captionOut = caption(HtmlOf(gen), from, to, lang_code)
    /\ other.doc = DocOf(other.kinds)
    /\ op = "parse" => doc = DocOf(kinds)
    /\ op = "caption" => html = HtmlOf(gen)

\* the other call has returned its one segment while the first call is
\* inside its loop and holds a segment of its own
C14_Witness ==
    /\ pc = "loop" /\ Len(transcripts) = 1 /\ nodes # <<>>
    /\ other.pc = "done" /\ other.parsed.tag = "Ok"
    /\ Len(other.parsed.transcripts) = 1

\* what the page holds between its first `from` anchor and the brace that
\* opens the `to` anchor after it: the payload and its closing braces but
\* the last
ExpectedRegion == PayloadOf(gen) \o [i \in 1..(gen.closers - 1) |-> "}"]

\* C15: the decoded text runs from the end of the first `from` to the start
\* of the first `to` after it, also when `to` occurs before `from` as well
\* and when both anchors occur again further down (the track of the later
\* list is never returned); with `to` only before `from` the call returns
\* the `to` error.
C15_FirstToAfterFirstFrom ==
    Called =>
        /\ (FromPresent /\ ToPresentAfterFrom) =>
               /\ Region(html, from, to) = ExpectedRegion
               /\ captionOut # OkCaption(TrackCaption("de"))
        /\ (FromPresent /\ ValidTrackList /\ TracksInLanguage = {}) =>
               captionOut = LangError
        /\ (FromPresent /\ gen.variant = "toBeforeFromOnly") => captionOut = ToError

\* a page whose first list has no de track and whose later list has one,
\* asked for de
C15_Witness ==
    /\ Called /\ ValidTrackList
    /\ gen.variant = "again" /\ gen.tracks = <<"en">> /\ lang_code = <<"de">>
    /\ Region(html, from, to) = ExpectedRegion
    /\ captionOut = LangError

\* the number of pieces of a block
BlockLen == Len(Block(NoSeg))

\* C16: the rendering of n segments is n blocks, the i-th made of the
\* header with the start and the duration of the i-th segment, its text
\* as it is, and the separator; and it is the rendering of any first part
\* of the transcript followed by the rendering of the rest.
C16_BlockPerSegment ==
    rendered.tag = "String" =>
        LET ts == parsed.transcripts
            ps == rendered.pieces
        IN  /\ Len(ps) = BlockLen * Len(ts)
            /\ \A i \in 1..Len(ts) :
                   SubSeq(ps, BlockLen * (i - 1) + 1, BlockLen * i) =
                       << Lit("\nstart at: "), to_human_readable(ts[i].start),
                          Lit(" for duration "), to_human_readable(ts[i].duration),
                          Lit("\n"), Lit(ts[i].text), Lit("\n==========\n\n") >>
            /\ \A k \in 0..Len(ts) :
                   ps = Render(SubSeq(ts, 1, k)) \o Render(SubSeq(ts, k + 1, Len(ts)))

\* a transcript of two different segments, rendered
C16_Witness ==
    /\ rendered.tag = "String"
    /\ Len(parsed.transcripts) = 2
    /\ parsed.transcripts[1].text = "Hey" /\ parsed.transcripts[2].text = "Hello"

\* the texts of the segments of the matching elements of a kind, by what
\* the last child of each holds: its own text if it is a text node, the
\* text of the comment if it is a comment, the text that opens it if it is
\* an element
KindTexts(kind) ==
    CASE kind = "hey"     -> <<"Hey">>
      [] kind = "hello"   -> <<"Hello">>
      [] kind = "bold"    -> <<"bold">>
      [] kind = "comment" -> <<"note">>
      [] kind = "mixed"   -> <<"tail">>
      [] kind = "para"    -> <<"deep">>
      [] kind = "nested"  -> <<"inner", "inner">>
      [] kind = "late"    -> <<"late">>
      [] OTHER            -> <<>>

ExpectedTexts == Flatten([i \in 1..Len(kinds) |-> KindTexts(kinds[i])])

\* the kind has children and its last child, by the claim, has no text
ClaimedTextless(kind) == kind \in {"brLast", "comment"}

\* C17, as claimed: when the first element that is not plainly valid has
\* no child, or a last child that is an empty element or a comment, parse
\* returns an error.
C17_TextlessLastChildFails ==
    (Parsed /\ \E i \in 1..Len(kinds) :
                  /\ ClaimedTextless(kinds[i]) \/ kinds[i] = "empty"
                  /\ \A j \in 1..(i - 1) : ValidKind(kinds[j]) /\ ~ClaimedTextless(kinds[j]))
        => parsed.tag = "Err"

\* C17, amended: the text of a segment comes from the last child alone
\* (text of earlier children is left out); a last child that is a comment
\* gives the text of the comment, and one that is an element gives the
\* text that opens that element; parse fails when the first offending
\* element has no child, or a last child that is an element not opened by
\* text.
C17_LastChildText ==
    /\ parsed.tag = "Ok" =>
           [i \in 1..Len(parsed.transcripts) |-> parsed.transcripts[i].text] = ExpectedTexts
    /\ (Parsed /\ FirstOffending > 0) =>
           /\ kinds[FirstOffending] = "empty" =>
                  parsed = [tag |-> "Err",
                            err |-> [variant |-> "ParseError", msg |-> <<"transcript parse error">>]]
           /\ kinds[FirstOffending] = "brLast" =>
                  parsed = [tag |-> "Err",
                            err |-> [variant |-> "ParseError", msg |-> <<"transcript error">>]]

\* text and then a comment: the segment holds the text of the comment
C17_Witness ==
    /\ kinds = <<"comment">>
    /\ parsed.tag = "Ok" /\ parsed.transcripts[1].text = "note"

\* the anchors of the call enclose a complete JSON object
CompletePayload == FromPresent /\ ToPresentAfterFrom /\ gen.closers = 2

\* C18: when the payload has no track list, or a record of its list lacks
\* the URL or the language, caption returns the payload error whatever
\* the requested language and whatever the other records; further fields
\* of a record and of the payload do not make the call fail: with all
\* records well formed the outcome is a track of the requested language, or
\* the language error.
C18_DecodedAsAWhole ==
    (Called /\ CompletePayload) =>
        IF gen.variant = "noList" \/ \E i \in 1..Len(gen.tracks) : ~WellFormedTrack(gen.tracks[i])
        THEN captionOut = PayloadError
        ELSE /\ captionOut # PayloadError
             /\ TracksInLanguage # {} <=> captionOut.tag = "Ok"
             /\ TracksInLanguage = {} <=> captionOut = LangError

\* an en track followed by a record without language, asked for en
C18_Witness ==
    /\ Called /\ CompletePayload
    /\ gen.tracks = <<"en", "noLang">> /\ lang_code = <<"en">>
    /\ captionOut = PayloadError

=============================================================================
